---- MODULE Spec2Model ----
(***************************************************************************)
(* The todo REST service of internals/todo/todo.go: four handlers over one *)
(* map guarded by one sync.Mutex, each request served by its own           *)
(* goroutine.  One action per step of a handler between two accesses to    *)
(* shared state (the mutex, the map, the response).                        *)
(***************************************************************************)
EXTENDS Integers, Sequences, FiniteSets, Bags, TLC

(* Bound: the number of requests the server receives in a behaviour. *)
NReq == 3

Reqs == 1..NReq

(***************************************************************************)
(* Wire JSON.  A JSON value carries its type; a JSON object is a function  *)
(* from the field names present to values; "malformed" is a body that is   *)
(* not JSON at all.                                                        *)
(***************************************************************************)
JNum(n) == [num |-> n]
JStr(s) == [str |-> s]
JBool(b) == [bool |-> b]
IsNum(v) == DOMAIN v = {"num"}
IsStr(v) == DOMAIN v = {"str"}
IsBool(v) == DOMAIN v = {"bool"}

Malformed == [malformed |-> TRUE]

(* The zero value of the Go struct Todo. *)
ZeroTodo == [Id |-> 0, Title |-> "", Done |-> FALSE]

(* json.Marshal of a Todo: all three tagged fields, always. *)
Marshal(t) ==
    [id |-> JNum(t.Id), title |-> JStr(t.Title), done |-> JBool(t.Done)]

(* The title is not decoded. *)
UnmarshalNoTitle(body) ==
    IF body = Malformed \/ "id" \notin DOMAIN body \/ ~IsNum(body["id"])
    THEN [err |-> TRUE, todo |-> ZeroTodo]
    ELSE [err |-> FALSE, todo |-> [ZeroTodo EXCEPT !.Id = body["id"].num]]

(* json.Unmarshal into a zero Todo: a field that is absent keeps its zero  *)
(* value, a field of the wrong JSON type is an error, and so is a body     *)
(* that is not JSON.                                                       *)
Unmarshal(body) ==
    IF body = Malformed THEN [err |-> TRUE, todo |-> ZeroTodo]
    ELSE LET has(f) == f \in DOMAIN body
             bad == \/ has("id") /\ ~IsNum(body["id"])
                    \/ has("title") /\ ~IsStr(body["title"])
                    \/ has("done") /\ ~IsBool(body["done"])
         IN IF bad THEN [err |-> TRUE, todo |-> ZeroTodo]
            ELSE [err |-> FALSE,
                  todo |-> [Id |-> IF has("id") THEN body["id"].num ELSE 0,
                            Title |-> IF has("title") THEN body["title"].str ELSE "",
                            Done |-> IF has("done") THEN body["done"].bool ELSE FALSE]]

(***************************************************************************)
(* The item path.  A path is "/todo/" followed by a suffix, the suffix a   *)
(* sequence of characters.                                                 *)
(***************************************************************************)
Digits == {"0", "1", "2", "3", "4", "5", "6", "7", "8", "9"}

DigitVal(c) ==
    CASE c = "0" -> 0 [] c = "1" -> 1 [] c = "2" -> 2 [] c = "3" -> 3
      [] c = "4" -> 4 [] c = "5" -> 5 [] c = "6" -> 6 [] c = "7" -> 7
      [] c = "8" -> 8 [] c = "9" -> 9

(* The length of the longest prefix of s made of digits. *)
RECURSIVE DigitPrefix(_)
DigitPrefix(s) ==
    IF s = <<>> \/ Head(s) \notin Digits THEN 0 ELSE 1 + DigitPrefix(Tail(s))

(* pathRegex "^/?todo/([\d]+)/?$" on "/todo/" \o suffix: one or more       *)
(* digits, an optional slash, the end.  group is submatch 1.               *)
pathRegex(suffix) ==
    LET n == DigitPrefix(suffix)
        rest == SubSeq(suffix, n + 1, Len(suffix))
    IN [match |-> n >= 1 /\ rest \in {<<>>, <<"/">>},
        group |-> SubSeq(suffix, 1, n)]

RECURSIVE StripZeros(_)
StripZeros(s) ==
    IF Len(s) > 1 /\ Head(s) = "0" THEN StripZeros(Tail(s)) ELSE s

(* 2^63 - 1, as its decimal digits. *)
MaxInt64 ==
    <<"9", "2", "2", "3", "3", "7", "2", "0", "3", "6",
      "8", "5", "4", "7", "7", "5", "8", "0", "7">>

(* a > b for two digit sequences of the same length. *)
RECURSIVE DigitsGreater(_, _)
DigitsGreater(a, b) ==
    IF a = <<>> THEN FALSE
    ELSE IF Head(a) # Head(b) THEN DigitVal(Head(a)) > DigitVal(Head(b))
    ELSE DigitsGreater(Tail(a), Tail(b))

RECURSIVE DecimalValue(_)
DecimalValue(s) ==
    IF s = <<>> THEN 0
    ELSE 10 * DecimalValue(SubSeq(s, 1, Len(s) - 1)) + DigitVal(s[Len(s)])

(* The range is not checked: a value that does not fit comes out as 0. *)
ParseIntUnchecked(s) ==
    LET d == StripZeros(s)
    IN [err |-> FALSE,
        val |-> IF Len(d) >= Len(MaxInt64) THEN 0 ELSE DecimalValue(d)]

(* strconv.ParseInt(s, 10, 64) on a non-empty digit string: a range error  *)
(* when the value exceeds 2^63 - 1.                                        *)
ParseInt(s) ==
    LET d == StripZeros(s)
        over == \/ Len(d) > Len(MaxInt64)
                \/ Len(d) = Len(MaxInt64) /\ DigitsGreater(d, MaxInt64)
    IN IF over THEN [err |-> TRUE, val |-> 0]
       ELSE [err |-> FALSE, val |-> DecimalValue(d)]

(***************************************************************************)
(* Responses.                                                              *)
(***************************************************************************)
StatusOK == 200
StatusBadRequest == 400
StatusNotFound == 404
StatusMethodNotAllowed == 405
StatusInternalServerError == 500

Text(s) == [kind |-> "text", text |-> s]
NotFoundText(id) == [kind |-> "notfound", id |-> id]
JsonObject(o) == [kind |-> "object", obj |-> o]
JsonArray(b, n) == [kind |-> "array", items |-> b, len |-> n]
Empty == [kind |-> "empty"]

NoResp == [status |-> 0, body |-> Empty, ct |-> ""]
Response(s, b, c) == [status |-> s, body |-> b, ct |-> c]

(***************************************************************************)
(* The requests the server receives.  Route A is the exact path "/todo",   *)
(* route B is "/todo/" followed by a suffix.                               *)
(***************************************************************************)
(* The second entry is left out. *)
SeedOfOne == (1 :> [Id |-> 1, Title |-> "Do dishes", Done |-> FALSE])

Seed == (1 :> [Id |-> 1, Title |-> "Do dishes", Done |-> FALSE])
        @@ (2 :> [Id |-> 2, Title |-> "Sweep", Done |-> TRUE])

(* The todos a client posts in full. *)
PostTodos ==
    {[Id |-> 1, Title |-> "X", Done |-> FALSE],
     [Id |-> 3, Title |-> "X", Done |-> FALSE],
     [Id |-> 3, Title |-> "Y", Done |-> TRUE],
     [Id |-> -1, Title |-> "X", Done |-> FALSE]}

Bodies ==
    {Marshal(t) : t \in PostTodos}
    \cup {<<>>, [id |-> JStr("3")], Malformed}

Request(m, route, suffix, ct, body, readErr) ==
    [method |-> m, route |-> route, suffix |-> suffix, ct |-> ct,
     body |-> body, readErr |-> readErr]

CollectionRequests ==
    {Request("GET", "A", <<>>, "", <<>>, FALSE),
     Request("PUT", "A", <<>>, "", <<>>, FALSE),
     Request("POST", "A", <<>>, "text/plain", Marshal(CHOOSE t \in PostTodos : TRUE), FALSE),
     Request("POST", "A", <<>>, "application/json", <<>>, TRUE),
     Request("POST", "A", <<>>, "text/plain", <<>>, TRUE),
     Request("PUT", "A", <<>>, "application/json", Marshal(CHOOSE t \in PostTodos : TRUE), FALSE)}
    \cup {Request("POST", "A", <<>>, "application/json", b, FALSE) : b \in Bodies}

Overflow == MaxInt64 \o <<"0">>

(* 2^63, the least value that does not fit, as its decimal digits. *)
JustOver == SubSeq(MaxInt64, 1, Len(MaxInt64) - 1) \o <<"8">>

GetSuffixes ==
    {<<"1">>, <<"3">>, <<"-", "1">>, <<"0", "1", "/">>, <<"a", "b", "c">>, JustOver}

DeleteSuffixes == {<<"1">>, <<"3">>, <<"-", "1">>, Overflow}

ItemRequests ==
    {Request("GET", "B", s, "", <<>>, FALSE) : s \in GetSuffixes}
    \cup {Request("DELETE", "B", s, "", <<>>, FALSE) : s \in DeleteSuffixes}
    \cup {Request("PATCH", "B", s, "", <<>>, FALSE) : s \in {<<"1">>, <<"a", "b", "c">>}}

NoRequest == Request("", "", <<>>, "", <<>>, FALSE)

(* Every key a request of the sets above can name, and the seed keys. *)
Keys == {-1, 0, 1, 2, 3}

(***************************************************************************)
(* The map operations of the handlers.                                     *)
(***************************************************************************)
(* The assignment is lost. *)
mapAssignDropped(m, k, v) == m

(* An entry that exists is kept as it is. *)
mapAssignKeep(m, k, v) ==
    [x \in DOMAIN m \cup {k} |-> IF x \in DOMAIN m THEN m[x] ELSE v]

(* The entry is put under the next free number, not under k. *)
mapAssignNext(m, k, v) ==
    LET n == Cardinality(DOMAIN m) + 1
    IN [x \in DOMAIN m \cup {n} |-> IF x = n THEN v ELSE m[x]]

(* h.store[k] = v *)
mapAssign(m, k, v) ==
    [x \in DOMAIN m \cup {k} |-> IF x = k THEN v ELSE m[x]]

(* Nothing is removed. *)
mapDeleteNothing(m, k) == m

(* The entries below the key go with it. *)
mapDeleteBelow(m, k) == [x \in {y \in DOMAIN m : y > k} |-> m[x]]

(* delete(h.store, k): a no-op when k is absent. *)
mapDelete(m, k) == [x \in DOMAIN m \ {k} |-> m[x]]

(* Every key is reported found. *)
mapLookupAlways(m, k) ==
    [found |-> TRUE, todo |-> IF k \in DOMAIN m THEN m[k] ELSE ZeroTodo]

(* v, found := h.store[k] *)
mapLookup(m, k) ==
    IF k \in DOMAIN m THEN [found |-> TRUE, todo |-> m[k]]
    ELSE [found |-> FALSE, todo |-> ZeroTodo]

(* The values of a map, each as often as it occurs. *)
mapValues(m) ==
    [t \in {m[k] : k \in DOMAIN m} |-> Cardinality({k \in DOMAIN m : m[k] = t})]

(* The loop of get over a slice made with n zero elements: every value of  *)
(* the map is copied to the next index, the tail stays zero.  The order of *)
(* a range over a map is unspecified, so the slice is kept as a bag.  The  *)
(* write todos[i] with i = n panics (index out of range).                  *)
rangeCopy(m, n) ==
    LET k == Cardinality(DOMAIN m)
    IN IF k > n THEN [panic |-> TRUE, todos |-> EmptyBag]
       ELSE [panic |-> FALSE,
             todos |-> mapValues(m) (+)
                       (IF n > k THEN [t \in {ZeroTodo} |-> n - k] ELSE EmptyBag)]

(* json.Marshal of a slice of Todo. *)
MarshalAll(b) ==
    [o \in {Marshal(t) : t \in BagToSet(b)} |->
        b[CHOOSE t \in BagToSet(b) : Marshal(t) = o]]

(* post, lines 56-78: the body is read, the content-type compared, the     *)
(* body decoded.  status 0: the handler goes on to the lock.               *)
postDecode(q) ==
    IF q.readErr
    THEN [status |-> StatusInternalServerError, body |-> Text("read error"),
          todo |-> ZeroTodo]
    ELSE IF q.ct # "application/json"
    THEN [status |-> StatusBadRequest, body |-> Text("application/json required"),
          todo |-> ZeroTodo]
    ELSE LET u == Unmarshal(q.body)
         IN IF u.err
            THEN [status |-> StatusBadRequest, body |-> Text("json decode error"),
                  todo |-> ZeroTodo]
            ELSE [status |-> 0, body |-> Empty, todo |-> u.todo]

(* getOne and delete, lines 110-122 and 146-158: the path is matched and   *)
(* its digit group parsed.  status 0: the handler goes on to the lock.     *)
parseItemPath(q) ==
    LET m == pathRegex(q.suffix)
    IN IF ~m.match
       THEN [status |-> StatusBadRequest,
             body |-> Text("Invalid path, should be /todo/{id}"), id |-> 0]
       ELSE LET p == ParseInt(m.group)
            IN IF p.err
               THEN [status |-> StatusInternalServerError,
                     body |-> Text("Bad stuff happened"), id |-> 0]
               ELSE [status |-> 0, body |-> Empty, id |-> p.val]

(***************************************************************************)
(* State.                                                                  *)
(***************************************************************************)
VARIABLES
    store,    \* h.store
    mu,       \* h.mu: 0 when unlocked, else the request that locked it
    pc,       \* where each request's goroutine stands
    req,      \* the request each goroutine serves
    loc,      \* the handler's local variables
    resp,     \* what the handler has written to its ResponseWriter
    crashed,  \* the runtime has thrown a fatal error: the process is gone
    before,   \* history: the requests that had returned when this one arrived
    hist,     \* history: the contents the map had during a GET /todo
    last,     \* history: the last write to each key
    saw,      \* history: last[id] when GET /todo/{id} looked id up
    found200  \* history: the deletes that found each key since its last write by a POST

vars == <<store, mu, pc, req, loc, resp, crashed, before, hist, last, saw, found200>>

NoLoc == [id |-> 0, n |-> 0, todo |-> ZeroTodo, found |-> FALSE, todos |-> EmptyBag]

None == [ev |-> "none"]

(* NewTodoHandlers: the two seed entries, the mutex unlocked. *)
Init ==
    /\ store = Seed
    /\ mu = 0
    /\ pc = [r \in Reqs |-> "idle"]
    /\ req = [r \in Reqs |-> NoRequest]
    /\ loc = [r \in Reqs |-> NoLoc]
    /\ resp = [r \in Reqs |-> NoResp]
    /\ crashed = FALSE
    /\ before = [r \in Reqs |-> {}]
    /\ hist = [r \in Reqs |-> {}]
    /\ last = [k \in Keys |-> IF k \in DOMAIN Seed THEN [ev |-> "seed"] ELSE None]
    /\ saw = [r \in Reqs |-> None]
    /\ found200 = [k \in Keys |-> {}]

GetPcs == {"get_len", "get_lock", "get_range", "get_unlock", "get_write"}

(* The accesses to the map that the runtime checks against a concurrent write. *)
MapAccessPcs ==
    {"post_store", "get_range", "getOne_lookup", "delete_lookup", "delete_remove"}

Returned == {r \in Reqs : pc[r] = "done"}

(* The map changes to m: every GET /todo in flight has seen one more content. *)
Record(m) ==
    [r \in Reqs |-> IF pc[r] \in GetPcs THEN hist[r] \cup {m} ELSE hist[r]]

(* A request arrives on a goroutine of its own, the requests numbered in   *)
(* the order of their arrival.                                             *)
Arrives(r) ==
    /\ ~crashed
    /\ pc[r] = "idle"
    /\ \A p \in Reqs : p < r => pc[p] # "idle"

(* WriteHeader is left out: the server answers 200. *)
FinishNoStatus(r, status, body, ct) ==
    /\ pc' = [pc EXCEPT ![r] = "done"]
    /\ resp' = [resp EXCEPT ![r] = Response(StatusOK, body, ct)]

Finish(r, status, body, ct) ==
    /\ pc' = [pc EXCEPT ![r] = "done"]
    /\ resp' = [resp EXCEPT ![r] = Response(status, body, ct)]

(* Todos: the method switch of "/todo", and of post the part before the lock. *)
Todos(r) ==
    /\ Arrives(r)
    /\ \E q \in CollectionRequests :
        /\ req' = [req EXCEPT ![r] = q]
        /\ before' = [before EXCEPT ![r] = Returned]
        /\ CASE q.method = "GET" ->
                  /\ pc' = [pc EXCEPT ![r] = "get_len"]
                  /\ hist' = [hist EXCEPT ![r] = {store}]
                  /\ UNCHANGED <<loc, resp>>
             [] q.method = "POST" ->
                  LET d == postDecode(q)
                  IN /\ hist' = hist
                     /\ IF d.status # 0
                        THEN Finish(r, d.status, d.body, "") /\ loc' = loc
                        ELSE /\ pc' = [pc EXCEPT ![r] = "post_lock"]
                             /\ loc' = [loc EXCEPT ![r].todo = d.todo]
                             /\ resp' = resp
             [] OTHER ->
                  /\ Finish(r, StatusMethodNotAllowed, Text("method not allowed"), "")
                  /\ UNCHANGED <<loc, hist>>
    /\ UNCHANGED <<store, mu, crashed, last, saw, found200>>

(* Todo: the method switch of "/todo/", and of getOne and delete the part  *)
(* before the lock.                                                        *)
Todo(r) ==
    /\ Arrives(r)
    /\ \E q \in ItemRequests :
        /\ req' = [req EXCEPT ![r] = q]
        /\ before' = [before EXCEPT ![r] = Returned]
        /\ IF q.method \in {"GET", "DELETE"}
           THEN LET p == parseItemPath(q)
                IN IF p.status # 0
                   THEN Finish(r, p.status, p.body, "") /\ loc' = loc
                   ELSE /\ pc' = [pc EXCEPT ![r] =
                                    IF q.method = "GET" THEN "getOne_lock" ELSE "delete_lock"]
                        /\ loc' = [loc EXCEPT ![r].id = p.id]
                        /\ resp' = resp
           ELSE /\ Finish(r, StatusMethodNotAllowed, Text("method not allowed"), "")
                /\ loc' = loc
    /\ UNCHANGED <<store, mu, crashed, hist, last, saw, found200>>

(* h.mu.Lock() at the pc from: blocks while the mutex is locked. *)
Lock(r, from, to) ==
    /\ ~crashed
    /\ pc[r] = from
    /\ mu = 0
    /\ mu' = r
    /\ pc' = [pc EXCEPT ![r] = to]
    /\ UNCHANGED <<store, req, loc, resp, crashed, before, hist, last, saw, found200>>

(* h.mu.Unlock() at the pc from. *)
Unlock(r, from, to) ==
    /\ ~crashed
    /\ pc[r] = from
    /\ mu' = 0
    /\ pc' = [pc EXCEPT ![r] = to]
    /\ UNCHANGED <<store, req, loc, resp, crashed, before, hist, last, saw, found200>>

(***************************************************************************)
(* post                                                                    *)
(***************************************************************************)
postLock(r) == Lock(r, "post_lock", "post_store")

(* h.store[todo.Id] = todo *)
postStore(r) ==
    /\ ~crashed
    /\ pc[r] = "post_store"
    /\ LET t == loc[r].todo
       IN /\ store' = mapAssign(store, t.Id, t)
          /\ last' = [last EXCEPT ![t.Id] = [ev |-> "post", body |-> req[r].body]]
          /\ found200' = [found200 EXCEPT ![t.Id] = {}]
    /\ hist' = Record(store')
    /\ pc' = [pc EXCEPT ![r] = "post_unlock"]
    /\ UNCHANGED <<mu, req, loc, resp, crashed, before, saw>>

(* The deferred h.mu.Unlock(), then the return: nothing was written, so    *)
(* the server answers 200 with an empty body.                              *)
postUnlock(r) ==
    /\ ~crashed
    /\ pc[r] = "post_unlock"
    /\ mu' = 0
    /\ Finish(r, StatusOK, Empty, "")
    /\ UNCHANGED <<store, req, loc, crashed, before, hist, last, saw, found200>>

(***************************************************************************)
(* get                                                                     *)
(***************************************************************************)
(* todos := make([]Todo, len(h.store)), before the lock is taken. *)
getLen(r) ==
    /\ ~crashed
    /\ pc[r] = "get_len"
    /\ loc' = [loc EXCEPT ![r].n = Cardinality(DOMAIN store)]
    /\ pc' = [pc EXCEPT ![r] = "get_lock"]
    /\ UNCHANGED <<store, mu, req, resp, crashed, before, hist, last, saw, found200>>

getLock(r) == Lock(r, "get_lock", "get_range")

(* The loop over h.store.  A panic unwinds the handler with the mutex      *)
(* still locked; the server recovers it and drops the connection.          *)
getRange(r) ==
    /\ ~crashed
    /\ pc[r] = "get_range"
    /\ LET c == rangeCopy(store, loc[r].n)
       IN IF c.panic
          THEN /\ pc' = [pc EXCEPT ![r] = "panicked"]
               /\ loc' = loc
          ELSE /\ pc' = [pc EXCEPT ![r] = "get_unlock"]
               /\ loc' = [loc EXCEPT ![r].todos = c.todos]
    /\ UNCHANGED <<store, mu, req, resp, crashed, before, hist, last, saw, found200>>

getUnlock(r) == Unlock(r, "get_unlock", "get_write")

(* json.Marshal(todos) cannot fail on a slice of Todo. *)
getWrite(r) ==
    /\ ~crashed
    /\ pc[r] = "get_write"
    /\ Finish(r, StatusOK, JsonArray(MarshalAll(loc[r].todos), loc[r].n),
              "application/json")
    /\ UNCHANGED <<store, mu, req, loc, crashed, before, hist, last, saw, found200>>

(***************************************************************************)
(* getOne                                                                  *)
(***************************************************************************)
getOneLock(r) == Lock(r, "getOne_lock", "getOne_lookup")

(* todo, found := h.store[id] *)
getOneLookup(r) ==
    /\ ~crashed
    /\ pc[r] = "getOne_lookup"
    /\ LET l == mapLookup(store, loc[r].id)
       IN /\ loc' = [loc EXCEPT ![r].found = l.found, ![r].todo = l.todo]
          /\ pc' = [pc EXCEPT ![r] = IF l.found THEN "getOne_unlock" ELSE "getOne_notfound"]
    /\ saw' = [saw EXCEPT ![r] = last[loc[r].id]]
    /\ UNCHANGED <<store, mu, req, resp, crashed, before, hist, last, found200>>

(* The not-found branch writes the 404 and returns; h.mu.Unlock() is below it. *)
getOneNotFound(r) ==
    /\ ~crashed
    /\ pc[r] = "getOne_notfound"
    /\ Finish(r, StatusNotFound, NotFoundText(loc[r].id), "")
    /\ UNCHANGED <<store, mu, req, loc, crashed, before, hist, last, saw, found200>>

getOneUnlock(r) == Unlock(r, "getOne_unlock", "getOne_write")

(* json.Marshal(todo) cannot fail on a Todo. *)
getOneWrite(r) ==
    /\ ~crashed
    /\ pc[r] = "getOne_write"
    /\ Finish(r, StatusOK, JsonObject(Marshal(loc[r].todo)), "application/json")
    /\ UNCHANGED <<store, mu, req, loc, crashed, before, hist, last, saw, found200>>

(***************************************************************************)
(* delete                                                                  *)
(***************************************************************************)
deleteLock(r) == Lock(r, "delete_lock", "delete_lookup")

(* _, found := h.store[id] *)
deleteLookup(r) ==
    /\ ~crashed
    /\ pc[r] = "delete_lookup"
    /\ LET l == mapLookup(store, loc[r].id)
       IN /\ loc' = [loc EXCEPT ![r].found = l.found]
          /\ pc' = [pc EXCEPT ![r] = IF l.found THEN "delete_unlock" ELSE "delete_notfound"]
          /\ found200' = IF l.found
                         THEN [found200 EXCEPT ![loc[r].id] = @ \cup {r}]
                         ELSE found200
    /\ UNCHANGED <<store, mu, req, resp, crashed, before, hist, last, saw>>

(* The not-found branch writes the 404 and returns; h.mu.Unlock() is below it. *)
deleteNotFound(r) ==
    /\ ~crashed
    /\ pc[r] = "delete_notfound"
    /\ Finish(r, StatusNotFound, NotFoundText(loc[r].id), "")
    /\ UNCHANGED <<store, mu, req, loc, crashed, before, hist, last, saw, found200>>

deleteUnlock(r) == Unlock(r, "delete_unlock", "delete_remove")

(* delete(h.store, id), after the mutex was unlocked. *)
deleteRemove(r) ==
    /\ ~crashed
    /\ pc[r] = "delete_remove"
    /\ store' = mapDelete(store, loc[r].id)
    /\ last' = [last EXCEPT ![loc[r].id] = [ev |-> "delete"]]
    /\ hist' = Record(store')
    /\ pc' = [pc EXCEPT ![r] = "delete_write"]
    /\ UNCHANGED <<mu, req, loc, resp, crashed, before, saw, found200>>

deleteWrite(r) ==
    /\ ~crashed
    /\ pc[r] = "delete_write"
    /\ Finish(r, StatusOK, Empty, "application/json")
    /\ UNCHANGED <<store, mu, req, loc, crashed, before, hist, last, saw, found200>>

(***************************************************************************)
(* The map write of delete is not ordered with the map accesses of any     *)
(* other goroutine.  When the two overlap the runtime either goes          *)
(* unnoticed, and one access follows the other, or it detects the          *)
(* concurrent map write and throws a fatal error that ends the process.    *)
(***************************************************************************)
Racing ==
    \E r, q \in Reqs :
        r # q /\ pc[r] = "delete_remove" /\ pc[q] \in MapAccessPcs

Crash ==
    /\ ~crashed
    /\ Racing
    /\ crashed' = TRUE
    /\ UNCHANGED <<store, mu, pc, req, loc, resp, before, hist, last, saw, found200>>

Step(r) ==
    \/ postLock(r) \/ postStore(r) \/ postUnlock(r)
    \/ getLen(r) \/ getLock(r) \/ getRange(r) \/ getUnlock(r) \/ getWrite(r)
    \/ getOneLock(r) \/ getOneLookup(r) \/ getOneNotFound(r)
    \/ getOneUnlock(r) \/ getOneWrite(r)
    \/ deleteLock(r) \/ deleteLookup(r) \/ deleteNotFound(r)
    \/ deleteUnlock(r) \/ deleteRemove(r) \/ deleteWrite(r)

Next ==
    \/ \E r \in Reqs : Todos(r)
    \/ \E r \in Reqs : Todo(r)
    \/ \E r \in Reqs : Step(r)
    \/ Crash

Spec == Init /\ [][Next]_vars

(* Every goroutine that can take a step eventually takes one. *)
FairSpec == Spec /\ \A r \in Reqs : WF_vars(Step(r))

(***************************************************************************)
(* What a request asks of the Store, read off the request itself.          *)
(***************************************************************************)
Arrived(r) == pc[r] # "idle"
IsList(r) == Arrived(r) /\ req[r].route = "A" /\ req[r].method = "GET"
IsUpsert(r) ==
    Arrived(r) /\ req[r].route = "A" /\ req[r].method = "POST"
    /\ postDecode(req[r]).status = 0
IsGetOne(r) ==
    Arrived(r) /\ req[r].route = "B" /\ req[r].method = "GET"
    /\ parseItemPath(req[r]).status = 0
IsDelete(r) ==
    Arrived(r) /\ req[r].route = "B" /\ req[r].method = "DELETE"
    /\ parseItemPath(req[r]).status = 0
PostedTodo(r) == postDecode(req[r]).todo
PathId(r) == parseItemPath(req[r]).id

(* The steps of the handlers that read or write h.store. *)
StoreAccessPcs == MapAccessPcs \cup {"get_len"}

(* C1: a request that is about to read or write the todo collection holds  *)
(* the store lock.                                                         *)
C1_AccessUnderLock ==
    \A r \in Reqs : pc[r] \in StoreAccessPcs => mu = r

(* C2: a request that has returned does not hold the store lock.           *)
C2_ReleasedOnReturn ==
    \A r \in Reqs : pc[r] = "done" => mu # r

(* C3: of the DELETE requests for one id that found it with no POST of     *)
(* that id in between, at most one answers 200.                            *)
C3_OneDeleteFinds ==
    \A k \in Keys :
        Cardinality({r \in found200[k] :
                        pc[r] = "done" /\ resp[r].status = StatusOK}) <= 1

(***************************************************************************)
(* C4.  The scenario: every request that arrived before the GET /todo g is *)
(* a valid POST that had returned when g arrived, their ids are pairwise   *)
(* distinct and none is a seed id, and no request has arrived since.       *)
(***************************************************************************)
Earlier(g) == {p \in Reqs : p < g}

PostsThenGet(g) ==
    /\ IsList(g)
    /\ pc[g] = "done"
    /\ \A p \in Earlier(g) :
          IsUpsert(p) /\ p \in before[g] /\ PostedTodo(p).Id \notin DOMAIN Seed
    /\ \A p, q \in Earlier(g) : p # q => PostedTodo(p).Id # PostedTodo(q).Id
    /\ \A q \in Reqs : q > g => pc[q] = "idle"

(* C4: after N valid POSTs with pairwise distinct non-seed ids have all    *)
(* returned, a following GET /todo answers an array of N + 2 entries: the  *)
(* two seed entries and every posted todo, each exactly once.              *)
C4_NoLostPost ==
    \A g \in Reqs :
        PostsThenGet(g) =>
            LET expected == {Seed[k] : k \in DOMAIN Seed}
                            \cup {PostedTodo(p) : p \in Earlier(g)}
            IN /\ resp[g].status = StatusOK
               /\ resp[g].body.kind = "array"
               /\ resp[g].body.len = Cardinality(Earlier(g)) + 2
               /\ resp[g].body.items = SetToBag({Marshal(t) : t \in expected})

(* Two POSTs with distinct new ids have returned and the GET after them has too. *)
C4_Witness ==
    \E g \in Reqs : PostsThenGet(g) /\ Cardinality(Earlier(g)) = 2

(* C5: the array a GET /todo answers is, entry for entry, the contents the *)
(* collection had at one moment during the request.                        *)
C5_ListIsSnapshot ==
    \A g \in Reqs :
        (IsList(g) /\ pc[g] = "done") =>
            \E m \in hist[g] :
                /\ resp[g].body.len = Cardinality(DOMAIN m)
                /\ resp[g].body.items = MarshalAll(mapValues(m))

(***************************************************************************)
(* C6.  The atomic Store and the responses the handlers give for its       *)
(* results.                                                                *)
(***************************************************************************)
IsStoreOp(r) == IsList(r) \/ IsUpsert(r) \/ IsGetOne(r) \/ IsDelete(r)

AtomicEffect(r, m) ==
    IF IsUpsert(r) THEN mapAssign(m, PostedTodo(r).Id, PostedTodo(r))
    ELSE IF IsDelete(r) THEN mapDelete(m, PathId(r))
    ELSE m

AtomicResponse(r, m) ==
    IF IsList(r)
    THEN Response(StatusOK,
                  JsonArray(MarshalAll(mapValues(m)), Cardinality(DOMAIN m)),
                  "application/json")
    ELSE IF IsUpsert(r) THEN Response(StatusOK, Empty, "")
    ELSE IF IsGetOne(r)
    THEN IF PathId(r) \in DOMAIN m
         THEN Response(StatusOK, JsonObject(Marshal(m[PathId(r)])), "application/json")
         ELSE Response(StatusNotFound, NotFoundText(PathId(r)), "")
    ELSE IF PathId(r) \in DOMAIN m
         THEN Response(StatusOK, Empty, "application/json")
         ELSE Response(StatusNotFound, NotFoundText(PathId(r)), "")

(* The requests of the sequence s run one after the other from the map m:  *)
(* each returned request got the response the atomic Store gives it.       *)
RECURSIVE Consistent(_, _)
Consistent(s, m) ==
    IF s = <<>> THEN TRUE
    ELSE /\ pc[Head(s)] = "done" => resp[Head(s)] = AtomicResponse(Head(s), m)
         /\ Consistent(Tail(s), AtomicEffect(Head(s), m))

(* The map that run leaves. *)
RECURSIVE FinalMap(_, _)
FinalMap(s, m) ==
    IF s = <<>> THEN m ELSE FinalMap(Tail(s), AtomicEffect(Head(s), m))

Orders(T) ==
    {s \in [1..Cardinality(T) -> T] : \A i, j \in 1..Cardinality(T) : i # j => s[i] # s[j]}

(* s puts a request that had returned before another arrived in front of it. *)
RealTime(s) ==
    \A i, j \in 1..Len(s) : s[i] \in before[s[j]] => i < j

(* C6: the responses given so far, and the collection once no request is   *)
(* in flight, are those of some sequential run of the requests against the *)
(* atomic Store in an order that agrees with real time; a request still in *)
(* flight may or may not have taken effect.                                *)
C6_Linearizable ==
    LET completed == {r \in Reqs : IsStoreOp(r) /\ pc[r] = "done"}
        pending == {r \in Reqs : IsStoreOp(r) /\ pc[r] # "done"}
    IN \E P \in SUBSET pending :
          \E s \in Orders(completed \cup P) :
              /\ RealTime(s)
              /\ Consistent(s, Seed)
              /\ pending = {} => FinalMap(s, Seed) = store

(* The request r arrived after every request before it had returned. *)
ArrivedAfterAll(r) == Arrived(r) /\ before[r] = {p \in Reqs : p < r}

(* C7: a request that arrives after a sequence of requests that have all   *)
(* returned, whatever their answers, eventually returns a response.        *)
C7_EveryRequestReturns ==
    \A r \in Reqs : ArrivedAfterAll(r) ~> (pc[r] = "done")

(***************************************************************************)
(* The path a client writes for an id: "/todo/" and the id in decimal.     *)
(***************************************************************************)
DigitChar(d) == CHOOSE c \in Digits : DigitVal(c) = d

RECURSIVE FormatNat(_)
FormatNat(n) ==
    IF n < 10 THEN <<DigitChar(n)>>
    ELSE FormatNat(n \div 10) \o <<DigitChar(n % 10)>>

FormatInt(n) == IF n < 0 THEN <<"-">> \o FormatNat(-n) ELSE FormatNat(n)

IsGetOf(r, k) ==
    Arrived(r) /\ req[r].route = "B" /\ req[r].method = "GET"
    /\ req[r].suffix = FormatInt(k)
IsDeleteOf(r, k) ==
    Arrived(r) /\ req[r].route = "B" /\ req[r].method = "DELETE"
    /\ req[r].suffix = FormatInt(k)
IsPostOf(r, k) == IsUpsert(r) /\ PostedTodo(r).Id = k

(* The POST p of the todo t has returned, then the GET r of t.Id arrived   *)
(* and has returned, and any other POST or DELETE of that id had returned  *)
(* before p arrived or has not arrived yet.                                *)
PostThenGet(p, r, t) ==
    /\ IsUpsert(p) /\ req[p].body = Marshal(t) /\ pc[p] = "done"
    /\ IsGetOf(r, t.Id) /\ pc[r] = "done" /\ p \in before[r]
    /\ \A q \in Reqs \ {p, r} :
          (IsPostOf(q, t.Id) \/ IsDeleteOf(q, t.Id)) =>
              (q \in before[p] \/ pc[q] = "idle")

RoundTrips(p, r, t) ==
    PostThenGet(p, r, t) =>
        /\ resp[r] = Response(StatusOK, JsonObject(Marshal(t)), "application/json")
        /\ Unmarshal(resp[r].body.obj) = [err |-> FALSE, todo |-> t]

(* C8 as claimed: for every todo t, a GET /todo/{t.id} that follows a POST *)
(* of t, with no POST or DELETE of the id in between, answers 200 with t.  *)
C8_RoundTripEveryId ==
    \A p, r \in Reqs : \A t \in PostTodos : RoundTrips(p, r, t)

(* The last write to the id of the GET /todo/{id} r, when r looked it up,  *)
(* was a POST of the todo t in full.                                       *)
SawPostOf(r, t) ==
    /\ IsGetOf(r, t.Id)
    /\ pc[r] = "done"
    /\ saw[r] = [ev |-> "post", body |-> Marshal(t)]

(* C8 amended: for every todo t whose id is not negative, a GET            *)
(* /todo/{t.id} that follows a POST of t, with no POST or DELETE of the id *)
(* in between, answers 200 with t; so does any GET /todo/{t.id} that looks *)
(* the id up when its last write was that POST.                            *)
C8_RoundTrip ==
    \A r \in Reqs : \A t \in {u \in PostTodos : u.Id >= 0} :
        /\ \A p \in Reqs : RoundTrips(p, r, t)
        /\ SawPostOf(r, t) =>
              resp[r] = Response(StatusOK, JsonObject(Marshal(t)), "application/json")

(* The POST had returned before the GET arrived. *)
C8_Witness ==
    \E p, r \in Reqs : \E t \in PostTodos :
        t.Id >= 0 /\ PostThenGet(p, r, t) /\ SawPostOf(r, t)

(* The collection holds the id k when the DELETE d of k runs: k is a seed  *)
(* id or a POST of k had returned when d arrived, and no other DELETE of k *)
(* has arrived.                                                            *)
DeleteOfPresent(d, k) ==
    /\ IsDeleteOf(d, k) /\ pc[d] = "done"
    /\ k \in DOMAIN Seed \/ \E p \in before[d] : IsPostOf(p, k)
    /\ \A q \in Reqs \ {d} : ~IsDeleteOf(q, k)

(* Every POST of k that has arrived had returned when d arrived. *)
NoPostSince(d, k) == \A q \in Reqs : IsPostOf(q, k) => q \in before[d]

DeleteThenGet(k) ==
    \A d \in Reqs :
        DeleteOfPresent(d, k) =>
            /\ resp[d] = Response(StatusOK, Empty, "application/json")
            /\ NoPostSince(d, k) => k \notin DOMAIN store
            /\ \A g \in Reqs :
                  (IsGetOf(g, k) /\ pc[g] = "done" /\ d \in before[g]
                   /\ NoPostSince(d, k)) =>
                      resp[g] = Response(StatusNotFound, NotFoundText(k), "")

(* C9 as claimed: a DELETE /todo/{id} of an id the collection holds        *)
(* answers 200 and removes the entry, and a GET /todo/{id} after it        *)
(* answers 404 until a POST of that id.                                    *)
C9_DeleteThenGetEveryId ==
    \A k \in Keys : DeleteThenGet(k)

(* C9 amended: a DELETE /todo/{id} of an id that is not negative and that  *)
(* the collection holds answers 200 and removes the entry, and a GET       *)
(* /todo/{id} after it answers 404 until a POST of that id; what is more,  *)
(* any DELETE that finds its id answers 200, and while the last write to   *)
(* an id is a removal the id is absent and a GET of it answers 404.        *)
C9_DeleteThenGet ==
    /\ \A k \in {j \in Keys : j >= 0} : DeleteThenGet(k)
    /\ \A d \in Reqs :
          (IsDelete(d) /\ pc[d] = "done" /\ loc[d].found) =>
              resp[d].status = StatusOK
    /\ \A k \in Keys : last[k].ev = "delete" => k \notin DOMAIN store
    /\ \A r \in Reqs :
          (IsGetOne(r) /\ pc[r] = "done" /\ saw[r].ev = "delete") =>
              resp[r] = Response(StatusNotFound, NotFoundText(PathId(r)), "")

(* A DELETE of an id that was posted answered 200 and a GET of the id that *)
(* arrived later got 404.                                                  *)
C9_Witness ==
    \E d, g \in Reqs : \E k \in Keys :
        /\ k >= 0 /\ k \notin DOMAIN Seed
        /\ DeleteOfPresent(d, k) /\ NoPostSince(d, k)
        /\ IsGetOf(g, k) /\ pc[g] = "done" /\ d \in before[g]
        /\ saw[g].ev = "delete"
        /\ resp[g].status = StatusNotFound

(* GET /todo, then a POST, then GET /todo, one after the other and nothing *)
(* else meanwhile; the id posted is one the first GET listed.              *)
GetPostGet(g1, p, g2) ==
    /\ IsList(g1) /\ pc[g1] = "done"
    /\ IsUpsert(p) /\ pc[p] = "done" /\ g1 \in before[p]
    /\ IsList(g2) /\ pc[g2] = "done" /\ p \in before[g2]
    /\ \A q \in Reqs \ {g1, p, g2} : q \in before[g1] \/ pc[q] = "idle"
    /\ \E o \in BagToSet(resp[g1].body.items) : o["id"].num = PostedTodo(p).Id

(* C10: a POST of an id the collection holds replaces the entry: GET /todo *)
(* lists as many entries after it as before, the entry of that id being    *)
(* the posted one and the others the same; and the entry of an id last     *)
(* written by a POST is the todo of that POST.                             *)
C10_Overwrite ==
    /\ \A g1, p, g2 \in Reqs :
          GetPostGet(g1, p, g2) =>
              LET old == resp[g1].body.items
                  kept == {o \in BagToSet(old) : o["id"].num # PostedTodo(p).Id}
              IN /\ resp[g2].body.len = resp[g1].body.len
                 /\ resp[g2].body.items =
                        SetToBag(kept \cup {Marshal(PostedTodo(p))})
    /\ \A k \in Keys :
          last[k].ev = "post" =>
              /\ k \in DOMAIN store
              /\ store[k] = Unmarshal(last[k].body).todo

(* The POST changed the entry of an id that was listed. *)
C10_Witness ==
    \E g1, p, g2 \in Reqs :
        /\ GetPostGet(g1, p, g2)
        /\ resp[g2].body.items # resp[g1].body.items
        /\ last[PostedTodo(p).Id].ev = "post"

(* The request r takes a step. *)
Steps(r) == pc'[r] # pc[r]

(* C11: a GET or DELETE /todo/{id} that looks up a well-formed id the      *)
(* collection does not hold answers 404 with the message naming that id,   *)
(* and leaves the collection as it is.                                     *)
C11_NotFound ==
    [][\A r \in Reqs :
          /\ ( /\ IsGetOne(r) \/ IsDelete(r)
               /\ pc[r] \in {"getOne_lookup", "delete_lookup"}
               /\ PathId(r) \notin DOMAIN store
               /\ Steps(r) ) =>
                  /\ pc'[r] \in {"getOne_notfound", "delete_notfound"}
                  /\ store' = store
          /\ ( /\ pc[r] \in {"getOne_notfound", "delete_notfound"}
               /\ Steps(r) ) =>
                  /\ pc'[r] = "done"
                  /\ resp'[r] = Response(StatusNotFound, NotFoundText(PathId(r)), "")
                  /\ store' = store]_vars

(* A DELETE of an absent id has answered 404. *)
C11_Witness ==
    \E r \in Reqs :
        /\ IsDelete(r) /\ pc[r] = "done"
        /\ PathId(r) \notin DOMAIN store
        /\ resp[r].status = StatusNotFound

(* The request r arrives as a POST /todo. *)
PostArrives(r) ==
    /\ pc[r] = "idle" /\ Steps(r)
    /\ req'[r].route = "A" /\ req'[r].method = "POST"

(* The bodies that do not decode as a Todo. *)
Undecodable == {Malformed, [id |-> JStr("3")]}

(* C12: a POST /todo whose content-type is not application/json is         *)
(* answered 400 "application/json required", and a POST whose body does    *)
(* not decode as a Todo is answered 400; neither changes the collection.   *)
C12_BadPost ==
    [][\A r \in Reqs :
          PostArrives(r) =>
              /\ req'[r].ct # "application/json" =>
                    /\ pc'[r] = "done"
                    /\ resp'[r] = Response(StatusBadRequest,
                                           Text("application/json required"), "")
                    /\ store' = store
              /\ req'[r].body \in Undecodable =>
                    /\ pc'[r] = "done"
                    /\ resp'[r].status = StatusBadRequest
                    /\ store' = store]_vars

(* The collection is the same before and after the step but at the key k. *)
SameBut(k) ==
    \A x \in (DOMAIN store \cup DOMAIN store') \ {k} :
        x \in DOMAIN store /\ x \in DOMAIN store' /\ store'[x] = store[x]

ErrorStatuses ==
    {StatusBadRequest, StatusNotFound, StatusMethodNotAllowed,
     StatusInternalServerError}

(* The request r is one whose handler writes the collection. *)
Writer(r) == IsUpsert(r) \/ (IsDelete(r) /\ loc[r].found)

(* C13: the collection changes only in the store step of a POST, which     *)
(* changes the entry of the posted id alone, and in the removal step of a  *)
(* DELETE that found its id, which removes the entry of that id alone; no  *)
(* step of GET /todo or GET /todo/{id} and no request answered 400, 404,   *)
(* 405 or 500 changes it.                                                  *)
C13_Frame ==
    /\ [](\A r \in Reqs :
             (pc[r] = "done" /\ resp[r].status \in ErrorStatuses) => ~Writer(r))
    /\ [][/\ (\A r \in Reqs : ~Steps(r)) => store' = store
          /\ \A r \in Reqs :
                Steps(r) =>
                    IF IsUpsert(r) /\ pc[r] = "post_store"
                    THEN /\ SameBut(PostedTodo(r).Id)
                         /\ PostedTodo(r).Id \in DOMAIN store'
                         /\ store'[PostedTodo(r).Id] = PostedTodo(r)
                    ELSE IF Writer(r) /\ pc[r] = "delete_remove"
                    THEN /\ SameBut(PathId(r))
                         /\ PathId(r) \notin DOMAIN store'
                    ELSE store' = store]_vars

(* A request was answered with an error, a POST has stored and a DELETE    *)
(* has removed.                                                            *)
C13_Witness ==
    \E p, d, e \in Reqs :
        /\ IsUpsert(p) /\ pc[p] = "done"
        /\ IsDelete(d) /\ pc[d] = "done" /\ resp[d].status = StatusOK
        /\ pc[e] = "done" /\ resp[e].status \in ErrorStatuses
        /\ PathId(d) = 3 /\ DOMAIN store = DOMAIN Seed

(* The steps of the handlers that write the status or the body of the response. *)
ResponsePcs ==
    {"get_write", "getOne_notfound", "getOne_write", "delete_notfound", "delete_write"}

(* C14: a request that is about to write its response does not hold the    *)
(* store lock.                                                             *)
C14_NoWriteUnderLock ==
    \A r \in Reqs : pc[r] \in ResponsePcs => mu # r

(* No POST and no DELETE has arrived. *)
Untouched ==
    \A q \in Reqs : Arrived(q) => req[q].method \notin {"POST", "DELETE"}

(* C15: before any POST or DELETE the collection holds exactly the entries *)
(* {1, "Do dishes", not done} and {2, "Sweep", done}, and GET /todo        *)
(* answers exactly these two.                                              *)
C15_Seed ==
    Untouched =>
        /\ DOMAIN store = {1, 2}
        /\ store[1] = [Id |-> 1, Title |-> "Do dishes", Done |-> FALSE]
        /\ store[2] = [Id |-> 2, Title |-> "Sweep", Done |-> TRUE]
        /\ \A g \in Reqs :
              (IsList(g) /\ pc[g] = "done") =>
                  /\ resp[g].status = StatusOK
                  /\ resp[g].body.len = 2
                  /\ resp[g].body.items =
                        SetToBag({[id |-> JNum(1), title |-> JStr("Do dishes"),
                                   done |-> JBool(FALSE)],
                                  [id |-> JNum(2), title |-> JStr("Sweep"),
                                   done |-> JBool(TRUE)]})

(* A GET /todo has returned and no POST or DELETE has arrived. *)
C15_Witness ==
    Untouched /\ \E g \in Reqs : IsList(g) /\ pc[g] = "done"

(* The method of the request q is not one its route serves. *)
OtherMethod(q) ==
    \/ q.route = "A" /\ q.method \notin {"GET", "POST"}
    \/ q.route = "B" /\ q.method \notin {"GET", "DELETE"}

(* C16: a request with a method other than GET or POST on /todo, or other  *)
(* than GET or DELETE on /todo/{id}, is answered 405 "method not allowed"  *)
(* on arrival, never holds the store lock and does not change the          *)
(* collection, whatever its path suffix, headers and body.                 *)
C16_MethodNotAllowed ==
    /\ [](\A r \in Reqs :
             (Arrived(r) /\ OtherMethod(req[r])) => (pc[r] = "done" /\ mu # r))
    /\ [][\A r \in Reqs :
             (pc[r] = "idle" /\ Steps(r) /\ OtherMethod(req'[r])) =>
                 /\ pc'[r] = "done"
                 /\ resp'[r] = Response(StatusMethodNotAllowed,
                                        Text("method not allowed"), "")
                 /\ mu' = mu
                 /\ store' = store]_vars

(* A PUT /todo with a JSON body and a PATCH on a path that is no item path *)
(* have been answered.                                                     *)
C16_Witness ==
    \E a, b \in Reqs :
        /\ req[a].method = "PUT" /\ req[a].ct = "application/json"
        /\ pc[a] = "done" /\ resp[a].status = StatusMethodNotAllowed
        /\ req[b].method = "PATCH" /\ req[b].suffix = <<"a", "b", "c">>
        /\ pc[b] = "done" /\ resp[b].status = StatusMethodNotAllowed

(* The suffix is one or more digits and at most one slash after them. *)
AllDigits(s) == s # <<>> /\ \A i \in 1..Len(s) : s[i] \in Digits
ItemPath(s) ==
    \/ AllDigits(s)
    \/ Len(s) > 1 /\ s[Len(s)] = "/" /\ AllDigits(SubSeq(s, 1, Len(s) - 1))

(* The suffixes of the requests whose number is 2^63 or more. *)
TooLarge == {JustOver, Overflow}

IsItemCall(q) == q.route = "B" /\ q.method \in {"GET", "DELETE"}

ItemPcs ==
    {"getOne_lock", "getOne_lookup", "getOne_notfound", "getOne_unlock",
     "getOne_write", "delete_lock", "delete_lookup", "delete_notfound",
     "delete_unlock", "delete_remove", "delete_write"}

(* C17: a GET or DELETE on the item route whose path does not match the    *)
(* pattern is answered 400 on arrival, and one whose digits exceed         *)
(* 2^63 - 1 is answered 500 "Bad stuff happened", both without the lock    *)
(* and with the collection unchanged; only a request whose path matched    *)
(* and parsed goes on to the lock and the collection, and it is never      *)
(* answered 500.                                                           *)
C17_PathThenStore ==
    /\ [](\A r \in Reqs :
             /\ pc[r] \in ItemPcs =>
                   (ItemPath(req[r].suffix) /\ req[r].suffix \notin TooLarge)
             /\ ( /\ Arrived(r) /\ IsItemCall(req[r])
                  /\ ~ItemPath(req[r].suffix) \/ req[r].suffix \in TooLarge ) =>
                   (pc[r] = "done" /\ mu # r)
             /\ ( /\ pc[r] = "done" /\ IsItemCall(req[r])
                  /\ ItemPath(req[r].suffix) /\ req[r].suffix \notin TooLarge ) =>
                   resp[r].status # StatusInternalServerError)
    /\ [][\A r \in Reqs :
             (pc[r] = "idle" /\ Steps(r) /\ IsItemCall(req'[r])) =>
                 /\ ~ItemPath(req'[r].suffix) =>
                       /\ pc'[r] = "done"
                       /\ resp'[r] = Response(StatusBadRequest,
                                              Text("Invalid path, should be /todo/{id}"), "")
                       /\ mu' = mu /\ store' = store
                 /\ req'[r].suffix \in TooLarge =>
                       /\ pc'[r] = "done"
                       /\ resp'[r] = Response(StatusInternalServerError,
                                              Text("Bad stuff happened"), "")
                       /\ mu' = mu /\ store' = store]_vars

(* A path that does not match, 2^63 and a longer number, and a path with   *)
(* a leading zero and a trailing slash have been answered.                 *)
C17_Witness ==
    \E a, b, c \in Reqs :
        /\ req[a].suffix = <<"a", "b", "c">> /\ resp[a].status = StatusBadRequest
        /\ req[b].suffix \in TooLarge /\ resp[b].status = StatusInternalServerError
        /\ req[c].suffix = <<"0", "1", "/">> /\ resp[c].status = StatusOK

(* C18: the loop of GET /todo never writes past the end of the slice it    *)
(* made: no GET /todo panics.                                              *)
C18_NoPanic ==
    \A r \in Reqs : pc[r] # "panicked"

(* C19: every key of the collection maps to a Todo whose Id is that key.   *)
C19_KeyIsId ==
    \A k \in DOMAIN store : store[k].Id = k

(* A POST has added an entry and a DELETE has removed a seed entry. *)
C19_Witness ==
    /\ \E k \in DOMAIN store : k \notin {1, 2}
    /\ 1 \notin DOMAIN store
    /\ \E p \in Reqs : IsUpsert(p) /\ pc[p] = "done"

====
